---- MODULE Spec2Model ----
(***************************************************************************)
(* Model of drivers/net/ethernet/freescale/adin_fixup.c: the board fixup   *)
(* of the ADIN1300 Ethernet PHY.  The fixup resolves an optional phy-mode  *)
(* override from the device tree, programs the RGMII config register       *)
(* (0xff23) and, when 'adi,clk_rcvr_125_en' is set, the clock config       *)
(* register (0xff1f).  Extended registers are reached through the MII      *)
(* pointer register 0x10 and the MII data register 0x11; every MDIO bus    *)
(* transaction is one step of the model.                                   *)
(***************************************************************************)
EXTENDS Integers, Sequences, FiniteSets, TLC

(* ------------------------------------------------------------------ *)
(* Bounds of the model                                                 *)
(* ------------------------------------------------------------------ *)
\* number of times the host invokes the fixup on the same device
MaxRuns == 2
\* number of pointer writes another accessor of the device may issue
MaxOther == 2

(* ------------------------------------------------------------------ *)
(* Register addresses and bit masks (adin_fixup.c:22-31)               *)
(* ------------------------------------------------------------------ *)
\* 0x0010
ADIN1300_MII_EXT_REG_PTR == 16
\* 0x0011
ADIN1300_MII_EXT_REG_DATA == 17
\* 0xff1f
ADIN1300_GE_CLK_CFG == 65311
\* BIT(5)
ADIN1300_GE_CLK_RCVR_125_EN == 32
\* 0xff23
ADIN1300_GE_RGMII_CFG_REG == 65315
\* BIT(2)
ADIN1300_GE_RGMII_RXID_EN == 4
\* BIT(1)
ADIN1300_GE_RGMII_TXID_EN == 2
\* BIT(0)
ADIN1300_GE_RGMII_EN == 1

(* ------------------------------------------------------------------ *)
(* C integer arithmetic                                                *)
(* ------------------------------------------------------------------ *)
\* conversion of an int to u16 (two's complement truncation)
U16(v) == v % 65536

\* TRUE iff the bit of the single-bit mask m is set in the int v
TestMask(v, m) == (v \div m) % 2 = 1

\* v | m for a single-bit mask m
OrMask(v, m) == IF TestMask(v, m) THEN v ELSE v + m

\* v & ~m for a single-bit mask m
AndNotMask(v, m) == IF TestMask(v, m) THEN v - m ELSE v

(* ------------------------------------------------------------------ *)
(* Strings: sequences of character codes, NUL-terminated in C          *)
(* ------------------------------------------------------------------ *)
\* the character at 1-based position i, the terminating NUL past the end
CharAt(s, i) == IF i <= Len(s) THEN s[i] ELSE 0

tolower(c) == IF c >= 65 /\ c <= 90 THEN c + 32 ELSE c

toupper(c) == IF c >= 97 /\ c <= 122 THEN c - 32 ELSE c

RECURSIVE strcasecmp_from(_, _, _)
strcasecmp_from(s1, s2, i) ==
    LET c1 == tolower(CharAt(s1, i))
        c2 == tolower(CharAt(s2, i))
    IN  IF c1 # c2 THEN c1 - c2
        ELSE IF c1 = 0 THEN 0
        ELSE strcasecmp_from(s1, s2, i + 1)

\* strcasecmp(3): 0 iff the strings are equal ignoring letter case
strcasecmp(s1, s2) == strcasecmp_from(s1, s2, 1)

(* ------------------------------------------------------------------ *)
(* The host's interface modes (phy_interface_t) and their names        *)
(* (phy_modes()), in the order of the enumeration.                     *)
(* ------------------------------------------------------------------ *)
PHY_INTERFACE_MODE_NA == 0
PHY_INTERFACE_MODE_MII == 1
PHY_INTERFACE_MODE_SGMII == 2
PHY_INTERFACE_MODE_RGMII == 3
PHY_INTERFACE_MODE_RGMII_ID == 4
PHY_INTERFACE_MODE_RGMII_RXID == 5
PHY_INTERFACE_MODE_RGMII_TXID == 6
PHY_INTERFACE_MODE_RTBI == 7
PHY_INTERFACE_MODE_MAX == 8

Modes == 0 .. (PHY_INTERFACE_MODE_MAX - 1)

Str_rgmii == <<114, 103, 109, 105, 105>>

\* phy_modes(i): "", "mii", "sgmii", "rgmii", "rgmii-id", "rgmii-rxid",
\* "rgmii-txid", "rtbi"
phy_modes(i) ==
    CASE i = PHY_INTERFACE_MODE_NA -> <<>>
      [] i = PHY_INTERFACE_MODE_MII -> <<109, 105, 105>>
      [] i = PHY_INTERFACE_MODE_SGMII -> <<115, 103, 109, 105, 105>>
      [] i = PHY_INTERFACE_MODE_RGMII -> Str_rgmii
      [] i = PHY_INTERFACE_MODE_RGMII_ID -> Str_rgmii \o <<45, 105, 100>>
      [] i = PHY_INTERFACE_MODE_RGMII_RXID -> Str_rgmii \o <<45, 114, 120, 105, 100>>
      [] i = PHY_INTERFACE_MODE_RGMII_TXID -> Str_rgmii \o <<45, 116, 120, 105, 100>>
      [] i = PHY_INTERFACE_MODE_RTBI -> <<114, 116, 98, 105>>
      [] OTHER -> <<117, 110, 107, 110, 111, 119, 110>>

(* ------------------------------------------------------------------ *)
(* Error numbers                                                       *)
(* ------------------------------------------------------------------ *)
ENODEV == 19
EINVAL == 22
EIO == 5
ETIMEDOUT == 110

\* what phy_read() / phy_write() return when the MDIO transaction fails
PhyErrors == {-EIO, -ETIMEDOUT}

(* ------------------------------------------------------------------ *)
(* adin_phy_interface_is_rgmii (adin_fixup.c:41-45)                    *)
(* ------------------------------------------------------------------ *)
adin_phy_interface_is_rgmii(interface) ==
    /\ interface >= PHY_INTERFACE_MODE_RGMII
    /\ interface <= PHY_INTERFACE_MODE_RGMII_TXID

(* ------------------------------------------------------------------ *)
(* adin_get_phy_mode_override (adin_fixup.c:70-95)                     *)
(* A property is [present |-> BOOLEAN, str |-> string].               *)
(* ------------------------------------------------------------------ *)
\* of_property_read_string: 0 and the string, or -EINVAL when absent
of_property_read_string(p) == IF p.present THEN 0 ELSE -EINVAL

\* the for loop of lines 87-89: the first index from i whose name matches,
\* PHY_INTERFACE_MODE_MAX when the loop runs to its end
RECURSIVE phy_mode_scan(_, _)
phy_mode_scan(s, i) ==
    IF i >= PHY_INTERFACE_MODE_MAX THEN PHY_INTERFACE_MODE_MAX
    ELSE IF strcasecmp(s, phy_modes(i)) = 0 THEN i
    ELSE phy_mode_scan(s, i + 1)

\* the function with strcmp in place of strcasecmp
adin_get_phy_mode_override_strcmp(p) ==
    IF ~p.present THEN -EINVAL
    ELSE IF \E i \in Modes : p.str = phy_modes(i)
    THEN CHOOSE i \in Modes : p.str = phy_modes(i)
    ELSE -ENODEV

\* the function's return value
adin_get_phy_mode_override(p) ==
    LET err == of_property_read_string(p)
    IN  IF err < 0 THEN err
        ELSE LET i == phy_mode_scan(p.str, 0)
             IN  IF i < PHY_INTERFACE_MODE_MAX THEN i ELSE -ENODEV

\* TRUE iff the printk of lines 91-92 is reached
adin_get_phy_mode_override_prints(p) ==
    /\ of_property_read_string(p) >= 0
    /\ phy_mode_scan(p.str, 0) >= PHY_INTERFACE_MODE_MAX

(* ------------------------------------------------------------------ *)
(* adin_config_rgmii_mode, its pure parts (adin_fixup.c:97-132)        *)
(* ------------------------------------------------------------------ *)
\* the override step without the test of line 102
adin_resolve_interface_unchecked(interface, p) ==
    adin_get_phy_mode_override(p)

\* lines 100-104: the handle's interface mode after the override step
adin_resolve_interface(interface, p) ==
    LET phy_mode_override == adin_get_phy_mode_override(p)
    IN  IF phy_mode_override >= 0 THEN phy_mode_override ELSE interface

\* lines 107-108: TRUE iff the function returns reg without writing
adin_rgmii_read_failed(r) == r < 0

\* the register value with the RX and TX delay bits exchanged
adin_rgmii_cfg_value_swapped(r, interface) ==
    IF ~adin_phy_interface_is_rgmii(interface)
    THEN AndNotMask(r, ADIN1300_GE_RGMII_EN)
    ELSE LET r1 == OrMask(r, ADIN1300_GE_RGMII_EN)
             r2 == IF interface = PHY_INTERFACE_MODE_RGMII_ID
                      \/ interface = PHY_INTERFACE_MODE_RGMII_RXID
                   THEN OrMask(r1, ADIN1300_GE_RGMII_TXID_EN)
                   ELSE AndNotMask(r1, ADIN1300_GE_RGMII_TXID_EN)
             r3 == IF interface = PHY_INTERFACE_MODE_RGMII_ID
                      \/ interface = PHY_INTERFACE_MODE_RGMII_TXID
                   THEN OrMask(r2, ADIN1300_GE_RGMII_RXID_EN)
                   ELSE AndNotMask(r2, ADIN1300_GE_RGMII_RXID_EN)
         IN  r3

\* the register value with the delay bits cleared too when the mode is not
\* RGMII
adin_rgmii_cfg_value_clears_delays(r, interface) ==
    IF ~adin_phy_interface_is_rgmii(interface)
    THEN AndNotMask(AndNotMask(AndNotMask(r, ADIN1300_GE_RGMII_EN),
                               ADIN1300_GE_RGMII_RXID_EN),
                    ADIN1300_GE_RGMII_TXID_EN)
    ELSE LET r1 == OrMask(r, ADIN1300_GE_RGMII_EN)
             r2 == IF interface = PHY_INTERFACE_MODE_RGMII_ID
                      \/ interface = PHY_INTERFACE_MODE_RGMII_RXID
                   THEN OrMask(r1, ADIN1300_GE_RGMII_RXID_EN)
                   ELSE AndNotMask(r1, ADIN1300_GE_RGMII_RXID_EN)
             r3 == IF interface = PHY_INTERFACE_MODE_RGMII_ID
                      \/ interface = PHY_INTERFACE_MODE_RGMII_TXID
                   THEN OrMask(r2, ADIN1300_GE_RGMII_TXID_EN)
                   ELSE AndNotMask(r2, ADIN1300_GE_RGMII_TXID_EN)
         IN  r3

\* lines 110-131: the int handed to adin_ext_write for the int r that
\* adin_ext_read returned
adin_rgmii_cfg_value(r, interface) ==
    IF ~adin_phy_interface_is_rgmii(interface)
    THEN AndNotMask(r, ADIN1300_GE_RGMII_EN)
    ELSE LET r1 == OrMask(r, ADIN1300_GE_RGMII_EN)
             r2 == IF interface = PHY_INTERFACE_MODE_RGMII_ID
                      \/ interface = PHY_INTERFACE_MODE_RGMII_RXID
                   THEN OrMask(r1, ADIN1300_GE_RGMII_RXID_EN)
                   ELSE AndNotMask(r1, ADIN1300_GE_RGMII_RXID_EN)
             r3 == IF interface = PHY_INTERFACE_MODE_RGMII_ID
                      \/ interface = PHY_INTERFACE_MODE_RGMII_TXID
                   THEN OrMask(r2, ADIN1300_GE_RGMII_TXID_EN)
                   ELSE AndNotMask(r2, ADIN1300_GE_RGMII_TXID_EN)
         IN  r3

(* ------------------------------------------------------------------ *)
(* adin_set_clock_config, its pure parts (adin_fixup.c:134-153)        *)
(* ------------------------------------------------------------------ *)
\* the register value with + in place of |
adin_clk_cfg_value_add(r) == r + ADIN1300_GE_CLK_RCVR_125_EN

\* line 148: the int handed to adin_ext_write
adin_clk_cfg_value(r) == OrMask(r, ADIN1300_GE_CLK_RCVR_125_EN)

\* the clock step without the test of line 144
adin_clk_enabled_always(flag) == TRUE

\* line 144: whether the register is programmed at all
adin_clk_enabled(flag) == flag

(* ------------------------------------------------------------------ *)
(* adin1300_phy_fixup, its pure part (adin_fixup.c:155-172)            *)
(* ------------------------------------------------------------------ *)
\* the test of lines 160 and 164 with the wrong sign
adin_fixup_failed_positive(r) == r > 0

\* lines 160 and 164: whether the fixup returns rc at once
adin_fixup_failed(r) == r < 0

(* ------------------------------------------------------------------ *)
(* adin_ext_read / adin_ext_write, their pure parts (47-62)            *)
(* ------------------------------------------------------------------ *)
\* lines 49-54: what adin_ext_read returns for the int phy_read returned;
\* the function's return type is u16
adin_ext_read_result(raw) == U16(raw)

\* line 57: the parameter val of adin_ext_write is a u16
adin_ext_write_arg(v) == U16(v)

\* a data access that would reach its regnum whatever the pointer holds
adin_ext_data_target_atomic(pointer, regnum) == regnum

\* lines 52 and 61: the extended register a data access reaches is the one
\* the pointer register holds at that moment, not the regnum of the call
adin_ext_data_target(pointer, regnum) == pointer

(* ------------------------------------------------------------------ *)
(* State                                                               *)
(* ------------------------------------------------------------------ *)
VARIABLES
    interface,  \* phydev->interface, the handle's interface mode
    prop,       \* the device node's property 'adi,phy-mode-override'
    clk_en,     \* the device node's boolean 'adi,clk_rcvr_125_en'
    ptr,        \* the PHY's MII register 0x10 (extended register pointer)
    ext,        \* the PHY's extended registers, by address
    pc,         \* the position of the fixup in its code
    caller,     \* which function called adin_ext_read / adin_ext_write
    regnum,     \* the regnum argument of the running adin_ext_* call
    val,        \* the val argument of the running adin_ext_write call
    reg,        \* the local int reg of the running function
    rc,         \* the local int rc of adin1300_phy_fixup
    ret,        \* what the last finished adin1300_phy_fixup returned
    log,        \* the bus accesses, printks and returns of the current run
    runs,       \* how many times the fixup has been invoked
    limit,      \* how many times the host invokes it
    mayFail,    \* whether MDIO transactions may fail
    faulted,    \* whether some MDIO transaction has failed
    entry,      \* interface and registers when the current run started
    snap,       \* interface and registers when the first run finished
    foreign,    \* the address another accessor left in the pointer register
                \* since the fixup's last pointer write, -1 when none did
    others      \* how many pointer writes other accessors have issued

vars == <<interface, prop, clk_en, ptr, ext, pc, caller, regnum, val, reg, rc,
          ret, log, runs, limit, mayFail, faulted, entry, snap, foreign, others>>

config == <<prop, clk_en, limit, mayFail>>

(* ------------------------------------------------------------------ *)
(* Initial values                                                      *)
(* ------------------------------------------------------------------ *)
\* the extended registers of the model: the two the fixup programs and the
\* one the pointer register selects after reset
ExtRegs == {ADIN1300_GE_CLK_CFG, ADIN1300_GE_RGMII_CFG_REG, 0}

Upper(s) == [i \in DOMAIN s |-> toupper(s[i])]

\* upper case at the odd positions
Mixed(s) == [i \in DOMAIN s |-> IF i % 2 = 1 THEN toupper(s[i]) ELSE s[i]]

\* "bogus", "rgmii-i", "rgmii-idx", "RGMII_id"
BadStrings ==
    { <<98, 111, 103, 117, 115>>,
      Str_rgmii \o <<45, 105>>,
      Str_rgmii \o <<45, 105, 100, 120>>,
      Upper(Str_rgmii) \o <<95, 105, 100>> }

PropStrings ==
    {phy_modes(i) : i \in Modes} \cup {Upper(phy_modes(i)) : i \in Modes}
    \cup {Mixed(phy_modes(i)) : i \in {PHY_INTERFACE_MODE_RGMII_ID,
                                       PHY_INTERFACE_MODE_RGMII_RXID}}
    \cup BadStrings

Props == {[present |-> FALSE, str |-> <<>>]}
         \cup {[present |-> TRUE, str |-> s] : s \in PropStrings}

\* contents of the RGMII config register before the fixup: 0x0000, 0x0e05,
\* 0xffff
RgmiiCfgValues == {0, 3589, 65535}

\* contents of the clock config register before the fixup: 0x0e01, 0xffff
ClkCfgValues == {3585, 65535}

\* the properties of the runs in which MDIO transactions may fail: absent,
\* "bogus", "mii", "RGMII-ID", "RgMiI-RxId"
FaultProps ==
    {[present |-> FALSE, str |-> <<>>]}
    \cup {[present |-> TRUE, str |-> s] :
            s \in { <<98, 111, 103, 117, 115>>,
                    phy_modes(PHY_INTERFACE_MODE_MII),
                    Upper(phy_modes(PHY_INTERFACE_MODE_RGMII_ID)),
                    Mixed(phy_modes(PHY_INTERFACE_MODE_RGMII_RXID)) }}

\* the properties of the runs with other accessors: absent, "rgmii-txid"
ConcProps ==
    {[present |-> FALSE, str |-> <<>>],
     [present |-> TRUE, str |-> phy_modes(PHY_INTERFACE_MODE_RGMII_TXID)]}

InitCommon(P) ==
    /\ interface \in Modes
    /\ prop \in P
    /\ clk_en \in BOOLEAN
    /\ ptr \in ExtRegs
    /\ \E r \in RgmiiCfgValues, c \in ClkCfgValues :
          ext = [a \in ExtRegs |->
                   IF a = ADIN1300_GE_RGMII_CFG_REG THEN r
                   ELSE IF a = ADIN1300_GE_CLK_CFG THEN c
                   ELSE 43690]
    /\ pc = "idle"
    /\ caller = "none"
    /\ regnum = 0
    /\ val = 0
    /\ reg = 0
    /\ rc = 0
    /\ ret = 0
    /\ log = <<>>
    /\ runs = 0
    /\ faulted = FALSE
    /\ entry = [interface |-> interface, ext |-> ext]
    /\ snap = [interface |-> interface, ext |-> ext]
    /\ foreign = -1
    /\ others = 0

\* one invocation, MDIO transactions may fail
Init == InitCommon(FaultProps) /\ limit = 1 /\ mayFail = TRUE

\* repeated invocations on the same device, every transaction succeeds
InitTwice == InitCommon(Props) /\ limit = MaxRuns /\ mayFail = FALSE

\* one invocation, every transaction succeeds, other accessors of the device
InitConc == InitCommon(ConcProps) /\ limit = 1 /\ mayFail = FALSE

(* ------------------------------------------------------------------ *)
(* Log entries                                                         *)
(* ------------------------------------------------------------------ *)
\* fn: "rgmii", "clk" or "fixup"; op: "ptr", "read", "write", "printk" or
\* "return"; regnum: the regnum of the adin_ext_* call; target: the extended
\* register the data access reached; v: the value written, the int phy_read
\* returned, or the mode printed; res: the result of the access or the value
\* returned; sel: TRUE iff the pointer write of the same adin_ext_* call took
\* effect; frn: the value of foreign at the access
Entry(fn, op, rn, target, v, res, sel, frn) ==
    [fn |-> fn, op |-> op, regnum |-> rn, target |-> target, v |-> v,
     res |-> res, sel |-> sel, frn |-> frn]

Printk(fn, v) == Entry(fn, "printk", 0, 0, v, 0, TRUE, -1)

Return(fn, res) == Entry(fn, "return", 0, 0, 0, res, TRUE, -1)

\* whether the last pointer write of the log took effect
LastSel == log[Len(log)].sel

\* the results a failing data transaction may have
DataFaults == IF mayFail THEN PhyErrors ELSE {}

\* whether a pointer write may fail
PtrOutcomes == IF mayFail THEN {TRUE, FALSE} ELSE {TRUE}

(* ------------------------------------------------------------------ *)
(* Actions                                                             *)
(* ------------------------------------------------------------------ *)
\* the host invokes adin1300_phy_fixup (line 155)
Attach ==
    /\ pc \in {"idle", "done"}
    /\ runs < limit
    /\ pc' = "rgmii_begin"
    /\ runs' = runs + 1
    /\ log' = <<>>
    /\ entry' = [interface |-> interface, ext |-> ext]
    /\ foreign' = -1
    /\ UNCHANGED <<interface, config, ptr, ext, caller, regnum, val, reg, rc,
                   ret, faulted, snap, others>>

\* adin_config_rgmii_mode, lines 100-106: the override step and the call of
\* adin_ext_read
adin_config_rgmii_mode_begin ==
    /\ pc = "rgmii_begin"
    /\ interface' = adin_resolve_interface(interface, prop)
    /\ log' = IF adin_get_phy_mode_override_prints(prop)
              THEN Append(log, Printk("override", 0))
              ELSE log
    /\ caller' = "rgmii"
    /\ regnum' = ADIN1300_GE_RGMII_CFG_REG
    /\ pc' = "ext_read_ptr"
    /\ UNCHANGED <<config, ptr, ext, val, reg, rc, ret, runs, faulted, entry,
                   snap, foreign, others>>

\* adin_ext_read, line 51 and adin_ext_write, line 59: the pointer write,
\* whose result is discarded
PtrWrite(next) ==
    \E ok \in PtrOutcomes :
        /\ ptr' = IF ok THEN U16(regnum) ELSE ptr
        /\ foreign' = IF ok THEN -1 ELSE foreign
        /\ faulted' = (faulted \/ ~ok)
        /\ log' = Append(log, Entry(caller, "ptr", regnum, 0, U16(regnum),
                                    IF ok THEN 0 ELSE -EIO, ok, foreign))
        /\ pc' = next
        /\ UNCHANGED <<interface, config, ext, caller, regnum, val, reg, rc,
                       ret, runs, entry, snap, others>>

adin_ext_read_ptr == pc = "ext_read_ptr" /\ PtrWrite("ext_read_data")

\* adin_ext_read, lines 52-54: the data read and the return to the caller
adin_ext_read_data ==
    /\ pc = "ext_read_data"
    /\ LET target == adin_ext_data_target(ptr, regnum)
       IN  \E raw \in {ext[target]} \cup DataFaults :
             /\ reg' = adin_ext_read_result(raw)
             /\ faulted' = (faulted \/ raw < 0)
             /\ log' = Append(log, Entry(caller, "read", regnum, target, raw,
                                         raw, LastSel, foreign))
    /\ pc' = IF caller = "rgmii" THEN "rgmii_modify" ELSE "clk_modify"
    /\ UNCHANGED <<interface, config, ptr, ext, caller, regnum, val, rc, ret,
                   runs, entry, snap, foreign, others>>

\* adin_config_rgmii_mode, lines 107-131: the check of the read, the new
\* register value and the call of adin_ext_write
adin_config_rgmii_mode_modify ==
    /\ pc = "rgmii_modify"
    /\ IF adin_rgmii_read_failed(reg)
       THEN /\ rc' = reg
            /\ log' = Append(log, Return("rgmii", reg))
            /\ pc' = "fixup_rc1"
            /\ UNCHANGED val
       ELSE /\ val' = adin_ext_write_arg(adin_rgmii_cfg_value(reg, interface))
            /\ pc' = "ext_write_ptr"
            /\ UNCHANGED <<rc, log>>
    /\ UNCHANGED <<interface, config, ptr, ext, caller, regnum, reg, ret, runs,
                   faulted, entry, snap, foreign, others>>

adin_ext_write_ptr == pc = "ext_write_ptr" /\ PtrWrite("ext_write_data")

\* adin_ext_write, line 61: the data write; both callers return its result
\* (lines 112, 131 and 149-152)
adin_ext_write_data ==
    /\ pc = "ext_write_data"
    /\ LET target == adin_ext_data_target(ptr, regnum)
       IN  \E res \in {0} \cup DataFaults :
             /\ ext' = IF res = 0 THEN [ext EXCEPT ![target] = val] ELSE ext
             /\ rc' = res
             /\ faulted' = (faulted \/ res < 0)
             /\ log' = Append(Append(log,
                          Entry(caller, "write", regnum, target, val, res,
                                LastSel, foreign)),
                          Return(caller, res))
    /\ pc' = IF caller = "rgmii" THEN "fixup_rc1" ELSE "fixup_rc2"
    /\ UNCHANGED <<interface, config, ptr, caller, regnum, val, reg, ret, runs,
                   entry, snap, foreign, others>>

\* what every return of adin1300_phy_fixup does to the state
Finish(status, newlog) ==
    /\ ret' = status
    /\ log' = Append(newlog, Return("fixup", status))
    /\ pc' = "done"
    /\ snap' = IF runs = 1 THEN [interface |-> interface, ext |-> ext]
               ELSE snap

\* adin1300_phy_fixup, lines 160-163
adin1300_phy_fixup_rc1 ==
    /\ pc = "fixup_rc1"
    /\ IF adin_fixup_failed(rc)
       THEN Finish(rc, log)
       ELSE /\ pc' = "clk_begin"
            /\ UNCHANGED <<ret, log, snap>>
    /\ UNCHANGED <<interface, config, ptr, ext, caller, regnum, val, reg, rc,
                   runs, faulted, entry, foreign, others>>

\* adin_set_clock_config, lines 142-147
adin_set_clock_config_begin ==
    /\ pc = "clk_begin"
    /\ IF adin_clk_enabled(clk_en)
       THEN /\ log' = Append(log, Printk("clk", 0))
            /\ caller' = "clk"
            /\ regnum' = ADIN1300_GE_CLK_CFG
            /\ reg' = 0
            /\ pc' = "ext_read_ptr"
            /\ UNCHANGED rc
       ELSE /\ reg' = 0
            /\ rc' = 0
            /\ log' = Append(log, Return("clk", 0))
            /\ pc' = "fixup_rc2"
            /\ UNCHANGED <<caller, regnum>>
    /\ UNCHANGED <<interface, config, ptr, ext, val, ret, runs, faulted, entry,
                   snap, foreign, others>>

\* adin_set_clock_config, lines 148-149
adin_set_clock_config_modify ==
    /\ pc = "clk_modify"
    /\ val' = adin_ext_write_arg(adin_clk_cfg_value(reg))
    /\ pc' = "ext_write_ptr"
    /\ UNCHANGED <<interface, config, ptr, ext, caller, regnum, reg, rc, ret,
                   log, runs, faulted, entry, snap, foreign, others>>

\* adin1300_phy_fixup, lines 164-171
adin1300_phy_fixup_rc2 ==
    /\ pc = "fixup_rc2"
    /\ IF adin_fixup_failed(rc)
       THEN Finish(rc, log)
       ELSE Finish(0, Append(log, Printk("fixup", interface)))
    /\ UNCHANGED <<interface, config, ptr, ext, caller, regnum, val, reg, rc,
                   runs, faulted, entry, foreign, others>>

\* another accessor of the same PHY selects an extended register while the
\* fixup runs
OtherAccessor ==
    /\ pc \notin {"idle", "done"}
    /\ others < MaxOther
    /\ \E a \in ExtRegs :
          /\ ptr' = a
          /\ foreign' = a
    /\ others' = others + 1
    /\ UNCHANGED <<interface, config, ext, pc, caller, regnum, val, reg, rc,
                   ret, log, runs, faulted, entry, snap>>

Next ==
    \/ Attach
    \/ adin_config_rgmii_mode_begin
    \/ adin_ext_read_ptr
    \/ adin_ext_read_data
    \/ adin_config_rgmii_mode_modify
    \/ adin_ext_write_ptr
    \/ adin_ext_write_data
    \/ adin1300_phy_fixup_rc1
    \/ adin_set_clock_config_begin
    \/ adin_set_clock_config_modify
    \/ adin1300_phy_fixup_rc2

NextConc == Next \/ OtherAccessor

Spec == Init /\ [][Next]_vars

SpecTwice == InitTwice /\ [][Next]_vars

SpecConc == InitConc /\ [][NextConc]_vars

(* ------------------------------------------------------------------ *)
(* Vocabulary of the properties                                        *)
(* ------------------------------------------------------------------ *)
LogSet == {log[i] : i \in DOMAIN log}

Accesses(fn, op) == {e \in LogSet : e.fn = fn /\ e.op = op}

\* the value, 0 or 1, of the bit of the single-bit mask m in the int v
Bit(v, m) == (v \div m) % 2

RgmiiModes == {PHY_INTERFACE_MODE_RGMII, PHY_INTERFACE_MODE_RGMII_ID,
               PHY_INTERFACE_MODE_RGMII_RXID, PHY_INTERFACE_MODE_RGMII_TXID}

\* the delay bits <<RX, TX>> of each RGMII variant
DelayTable ==
    [m \in RgmiiModes |->
        CASE m = PHY_INTERFACE_MODE_RGMII -> <<0, 0>>
          [] m = PHY_INTERFACE_MODE_RGMII_ID -> <<1, 1>>
          [] m = PHY_INTERFACE_MODE_RGMII_RXID -> <<1, 0>>
          [] m = PHY_INTERFACE_MODE_RGMII_TXID -> <<0, 1>>]

\* the low three bits of v are those the mode m asks for
ProgrammedFor(m, v) ==
    IF m \in RgmiiModes
    THEN /\ Bit(v, 1) = 1
         /\ Bit(v, 4) = DelayTable[m][1]
         /\ Bit(v, 2) = DelayTable[m][2]
    ELSE Bit(v, 1) = 0

\* two characters that are equal, or the two cases of one letter
SameLetter(a, b) ==
    \/ a = b
    \/ a \in 65 .. 90 /\ b = a + 32
    \/ b \in 65 .. 90 /\ a = b + 32

EqualIgnoringCase(s, t) ==
    /\ Len(s) = Len(t)
    /\ \A i \in 1 .. Len(s) : SameLetter(s[i], t[i])

\* the override property names no known mode
NoMatch ==
    \/ ~prop.present
    \/ \A m \in Modes : ~EqualIgnoringCase(prop.str, phy_modes(m))

\* the override step of the current run is over
AfterOverride == pc \notin {"idle", "rgmii_begin"}

\* the diagnostic of adin_get_phy_mode_override was printed in this run
Diagnostic == \E e \in LogSet : e.fn = "override" /\ e.op = "printk"

BusOps == {"ptr", "read", "write"}

(* ------------------------------------------------------------------ *)
(* C1.  When the resolved (post-override) interface mode is one of the *)
(* four RGMII variants, the value adin_config_rgmii_mode writes to the *)
(* RGMII config register has the enable bit set and the RX / TX delay  *)
(* bits of the table RGMII 0,0; RGMII-ID 1,1; RGMII-RXID 1,0;          *)
(* RGMII-TXID 0,1 -- whatever the mode before the override, whatever   *)
(* the override and whatever was read from the register.               *)
(* ------------------------------------------------------------------ *)
C1_RgmiiDelayBits ==
    \A w \in Accesses("rgmii", "write") :
        /\ w.regnum = ADIN1300_GE_RGMII_CFG_REG
        /\ interface \in RgmiiModes =>
              /\ Bit(w.v, 1) = 1
              /\ Bit(w.v, 4) = DelayTable[interface][1]
              /\ Bit(w.v, 2) = DelayTable[interface][2]

\* the handle held RGMII-TXID, the override "RgMiI-RxId" made it RGMII-RXID,
\* 0xffff was read and the value with RX set and TX cleared was written
C1_Witness ==
    /\ entry.interface = PHY_INTERFACE_MODE_RGMII_TXID
    /\ interface = PHY_INTERFACE_MODE_RGMII_RXID
    /\ prop.present
    /\ \E rd \in Accesses("rgmii", "read"), w \in Accesses("rgmii", "write") :
          /\ rd.v = 65535
          /\ w.res = 0
          /\ w.v = 65533
          /\ ext[ADIN1300_GE_RGMII_CFG_REG] = 65533

(* ------------------------------------------------------------------ *)
(* C2.  When the resolved interface mode is none of the four RGMII     *)
(* variants, adin_config_rgmii_mode writes back the value it read from *)
(* the register with the enable bit cleared and every other bit, the   *)
(* delay bits among them, as read.                                     *)
(* ------------------------------------------------------------------ *)
C2_NonRgmiiClearsEnableOnly ==
    \A rd \in Accesses("rgmii", "read"), w \in Accesses("rgmii", "write") :
        (interface \notin RgmiiModes /\ rd.res >= 0) =>
            /\ rd.v = entry.ext[rd.target]
            /\ w.v \in 0 .. 65535
            /\ Bit(w.v, 1) = 0
            /\ \A k \in 1 .. 15 : Bit(w.v, 2 ^ k) = Bit(rd.v, 2 ^ k)

\* mode MII: 0xffff was read from the register and 0xfffe written to it
C2_Witness ==
    /\ interface = PHY_INTERFACE_MODE_MII
    /\ \E rd \in Accesses("rgmii", "read"), w \in Accesses("rgmii", "write") :
          /\ rd.target = ADIN1300_GE_RGMII_CFG_REG
          /\ rd.v = 65535
          /\ w.res = 0
          /\ w.v = 65534
          /\ ext[ADIN1300_GE_RGMII_CFG_REG] = 65534

(* ------------------------------------------------------------------ *)
(* C3.  If the property 'adi,phy-mode-override' is present and equals, *)
(* ignoring letter case, the name of a known interface mode, then      *)
(* after the override step the handle's interface mode is that mode,   *)
(* whatever it was before.                                             *)
(* ------------------------------------------------------------------ *)
C3_ValidOverrideWins ==
    AfterOverride =>
        \A m \in Modes :
            (prop.present /\ EqualIgnoringCase(prop.str, phy_modes(m)))
                => interface = m

\* the handle held MII and the override "RGMII-ID" made it RGMII-ID
C3_Witness ==
    /\ pc = "ext_read_ptr"
    /\ runs = 1
    /\ prop.present
    /\ prop.str = Upper(phy_modes(PHY_INTERFACE_MODE_RGMII_ID))
    /\ prop.str # phy_modes(PHY_INTERFACE_MODE_RGMII_ID)
    /\ entry.interface = PHY_INTERFACE_MODE_MII
    /\ interface = PHY_INTERFACE_MODE_RGMII_ID

(* ------------------------------------------------------------------ *)
(* C4.  If the override property is absent, or present but naming no   *)
(* known mode, the handle's interface mode stays what it was, the      *)
(* fixup does not fail because of it and programs the RGMII register   *)
(* from the original mode; a diagnostic is printed when the property   *)
(* is present but unrecognized and none when it is absent.             *)
(* ------------------------------------------------------------------ *)
C4_NoOverrideKeepsMode ==
    (NoMatch /\ AfterOverride) =>
        /\ interface = entry.interface
        /\ Diagnostic <=> prop.present
        /\ pc = "done" =>
              /\ ret = 0
              /\ \E w \in Accesses("rgmii", "write") :
                    /\ w.res = 0
                    /\ w.target = ADIN1300_GE_RGMII_CFG_REG
                    /\ ProgrammedFor(entry.interface, w.v)
                    /\ ext[ADIN1300_GE_RGMII_CFG_REG] = w.v

\* the override "rgmii-idx" names no mode: the diagnostic was printed, the
\* handle kept RGMII-TXID and the fixup returned 0
C4_Witness ==
    /\ pc = "done"
    /\ prop.present
    /\ prop.str = Str_rgmii \o <<45, 105, 100, 120>>
    /\ Diagnostic
    /\ entry.interface = PHY_INTERFACE_MODE_RGMII_TXID
    /\ interface = PHY_INTERFACE_MODE_RGMII_TXID
    /\ ret = 0
    /\ Bit(ext[ADIN1300_GE_RGMII_CFG_REG], 2) = 1
    /\ Bit(ext[ADIN1300_GE_RGMII_CFG_REG], 4) = 0

C6_ReadFailureAborts ==
    \A rd \in Accesses("rgmii", "read") :
        rd.res < 0 =>
            /\ \A e \in LogSet : e.op = "write" => e.fn # "rgmii"
            /\ \A e \in LogSet : e.fn # "clk"
            /\ pc = "done" => ret = rd.res

(* ------------------------------------------------------------------ *)
(* C7.  With the clock flag set, a negative outcome of the read of the *)
(* clock config register or of its write is what adin_set_clock_config *)
(* returns; otherwise the value written is the value read with bit 5   *)
(* set and the step returns the write's result.                        *)
(* ------------------------------------------------------------------ *)
C7_ClockErrorsReturned ==
    clk_en =>
        \A rd \in Accesses("clk", "read"), w \in Accesses("clk", "write"),
           r \in Accesses("clk", "return") :
            IF rd.res < 0 \/ w.res < 0
            THEN /\ r.res < 0
                 /\ r.res \in {rd.res, w.res}
            ELSE /\ Bit(w.v, 32) = 1
                 /\ \A k \in (0 .. 15) \ {5} : Bit(w.v, 2 ^ k) = Bit(rd.v, 2 ^ k)
                 /\ r.res = w.res

(* ------------------------------------------------------------------ *)
(* C8.  The fixup runs the RGMII step strictly before the clock step   *)
(* and stops at the first failing step: if the write of the RGMII      *)
(* config register returns a negative status the fixup returns it,     *)
(* issues no access for the clock config register and does not log the *)
(* resolved mode; it returns 0 only if both steps returned a           *)
(* non-negative status, and otherwise a negative value.                *)
(* ------------------------------------------------------------------ *)
C8_SequentialAbort ==
    /\ \A i, j \in DOMAIN log :
          (log[i].fn = "rgmii" /\ log[j].fn = "clk") => i < j
    /\ \A w \in Accesses("rgmii", "write") :
          w.res < 0 =>
              /\ \A e \in LogSet : e.fn # "clk"
              /\ \A e \in LogSet :
                    e.op \in BusOps => e.regnum # ADIN1300_GE_CLK_CFG
              /\ Accesses("fixup", "printk") = {}
              /\ pc \notin {"clk_begin", "clk_modify"}
              /\ pc = "done" => ret = w.res
    /\ pc = "done" =>
          /\ ret <= 0
          /\ ret = 0 =>
                /\ \E r \in Accesses("rgmii", "return") : r.res >= 0
                /\ \E r \in Accesses("clk", "return") : r.res >= 0
                /\ \A r \in Accesses("rgmii", "return")
                        \cup Accesses("clk", "return") : r.res >= 0

\* the clock flag is set, the write of the RGMII config register timed out
\* and the fixup returned -ETIMEDOUT
C8_Witness ==
    /\ pc = "done"
    /\ clk_en
    /\ ret = -ETIMEDOUT
    /\ \E w \in Accesses("rgmii", "write") : w.res = -ETIMEDOUT

(* ------------------------------------------------------------------ *)
(* C9.  With every register access succeeding, invoking the fixup      *)
(* again on the same device leaves the RGMII config register, the      *)
(* clock config register and the handle's interface mode as the first  *)
(* invocation left them.                                               *)
(* ------------------------------------------------------------------ *)
C9_Idempotent ==
    (pc = "done" /\ runs >= 2 /\ ~faulted) =>
        /\ ext = snap.ext
        /\ interface = snap.interface

\* the second invocation is over; the first one had changed both registers
\* (0x0e05 to 0x0e07, 0x0e01 to 0x0e21) and the mode (MII to RGMII-ID)
C9_Witness ==
    /\ pc = "done"
    /\ runs = 2
    /\ ~faulted
    /\ clk_en
    /\ prop.present
    /\ interface = PHY_INTERFACE_MODE_RGMII_ID
    /\ ext[ADIN1300_GE_RGMII_CFG_REG] = 3591
    /\ ext[ADIN1300_GE_CLK_CFG] = 3617
    /\ Accesses("clk", "write") # {}

(* ------------------------------------------------------------------ *)
(* C10.  The indirect access is not atomic: when another accessor      *)
(* writes the pointer register between the fixup's pointer write and   *)
(* its data access, the data access reaches the register the other     *)
(* accessor selected; when none does, it reaches the register whose    *)
(* address the same access wrote to the pointer register.              *)
(* ------------------------------------------------------------------ *)
C10_PointerRace ==
    \A e \in LogSet :
        e.op \in {"read", "write"} =>
            /\ e.frn # -1 => e.target = e.frn
            /\ (e.frn = -1 /\ e.sel) => e.target = e.regnum

\* both halves of the read-modify-write of the RGMII config register were
\* diverted: the clock config register was read and overwritten, the RGMII
\* config register is as it was
C10_Witness ==
    \E rd \in Accesses("rgmii", "read"), w \in Accesses("rgmii", "write") :
        /\ rd.regnum = ADIN1300_GE_RGMII_CFG_REG
        /\ rd.frn = ADIN1300_GE_CLK_CFG
        /\ rd.target = ADIN1300_GE_CLK_CFG
        /\ rd.v = entry.ext[ADIN1300_GE_CLK_CFG]
        /\ w.frn = ADIN1300_GE_CLK_CFG
        /\ w.target = ADIN1300_GE_CLK_CFG
        /\ w.res = 0
        /\ pc = "fixup_rc1"
        /\ ext[ADIN1300_GE_CLK_CFG] = w.v
        /\ ext[ADIN1300_GE_CLK_CFG] # entry.ext[ADIN1300_GE_CLK_CFG]
        /\ ext[ADIN1300_GE_RGMII_CFG_REG] = entry.ext[ADIN1300_GE_RGMII_CFG_REG]

====
